---- MODULE Spec2Model ----
(***************************************************************************)
(* Model of src/extension.js: the resolver of the anemos binary            *)
(* (ensureAnemosBinary, getGithubReleaseUrl, downloadFile,                 *)
(* writeResponseToFile), the type-declaration synchronizer                 *)
(* (ensureTypesAreUpToDate, getAnemosToolVersion, generateAnemosTypes)     *)
(* and the host glue that calls them (activate, the anemos.build command). *)
(*                                                                         *)
(* A resolver call is a frame of `call`; it suspends at the awaits of the  *)
(* code (probe, consent prompt, HTTP response, streaming) and everything   *)
(* between two awaits is one action.                                       *)
(***************************************************************************)
EXTENDS Integers, Sequences, FiniteSets, TLC

\* ------------------------------------------------------------------ bounds
\* Longest redirect chain the modelled server produces.
MaxRedirects == 2
\* Number of resolver call frames that may exist at once.
MaxCalls == 2

Calls == 1..MaxCalls

\* ------------------------------------------------------- host environment
\* Values os.platform() and os.arch() can report.
AllPlatforms ==
  {"aix", "android", "cygwin", "darwin", "freebsd", "haiku", "linux",
   "netbsd", "openbsd", "sunos", "win32"}
AllArchs ==
  {"arm", "arm64", "ia32", "loong64", "mips", "mipsel", "ppc", "ppc64",
   "riscv64", "s390", "s390x", "x64"}

\* Hosts of the full state machine (one per branch of the platform tests).
Platforms == {"win32", "linux"}
Archs == {"x64"}

\* Version tokens a binary can print; "0.0.0" is the unversioned build.
Versions == {"0.0.0", "1.2.0", "1.3.0"}

\* Bodies a terminal response can carry: the released binary of a version.
Bodies == {"1.2.0", "1.3.0"}
\* Body of a 301/302 response (an HTML stub), never a binary.
RedirectBody == "redirect-page"

\* context.globalStorageUri.fsPath
StoragePath == "globalStorage"

\* The target the modelled server names in the Location header of its n-th
\* redirect; <<>> is a missing header (undefined).
HopNames ==
  <<"https://objects.example/hop1", "https://objects.example/hop2",
    "https://objects.example/hop3", "https://objects.example/hop4",
    "https://objects.example/hop5", "https://objects.example/hop6">>
LocationOfHop(n) == <<HopNames[n]>>
Undefined == <<>>

RedirectStatuses == {301, 302}
TerminalStatuses == {200, 204, 307, 404}

\* ---------------------------------------------------------- pure functions
\* ensureAnemosBinary, the choice of the file name.
BinaryName(p) == IF p = "win32" THEN "anemos.exe" ELSE "anemos"

\* path.join(storagePath, binaryName): the absolute cache path.
BinaryPath(p) == <<StoragePath, BinaryName(p)>>

\* The bare command name as a ToolLocation.
BareName(p) == <<BinaryName(p)>>

\* getGithubReleaseUrl, first switch.
PlatformId(p) ==
  CASE p = "win32" -> "windows"
    [] p = "darwin" -> "darwin"
    [] OTHER -> "linux"

\* Variant of ArchId: an unrecognized architecture is passed through.
ArchIdPassThrough(a) ==
  CASE a = "x64" -> "amd64"
    [] OTHER -> a

\* getGithubReleaseUrl, second switch.
ArchId(a) ==
  CASE a = "x64" -> "amd64"
    [] a = "arm64" -> "arm64"
    [] OTHER -> "amd64"

\* getGithubReleaseUrl: the template string, one token per piece.
getGithubReleaseUrl(p, a) ==
  <<"https://github.com/ohayocorp/anemos/releases/", "latest",
    "/download/anemos-", PlatformId(p), "-", ArchId(a)>>

\* Variant of IsRedirect: only 302 is followed.
IsRedirectOnly302(status) == status = 302

\* downloadFile, the redirect test.
IsRedirect(status) == status = 302 \/ status = 301

\* Variant of IsOk: every status below 400 is streamed.
IsOkBelow400(status) == status < 400

\* downloadFile, the success test (the negation of statusCode !== 200).
IsOk(status) == status = 200

\* ------------------------------------------------------------------- state
VARIABLES
  platform,     \* os.platform()
  arch,         \* os.arch()
  pathVersion,  \* version printed by the binary on the search path
  dirExists,    \* the storage directory exists
  file,         \* the file at the cache path
  record,       \* version.json: [state, version], state none / corrupt / ok
  artifacts,    \* the generated declarations: [version, complete]
  hostPc,       \* position of the host in activate: start ... active
  registered,   \* anemos.build registered and terminal listener installed
  warned,       \* activate showed its warning message
  sync,         \* the synchronization pass of this session
  call          \* the resolver call frames

vars == <<platform, arch, pathVersion, dirExists, file, record, artifacts,
          hostPc, registered, warned, sync, call>>

NoFile == [exists |-> FALSE, complete |-> FALSE, body |-> "none", exec |-> FALSE]

\* An Error value: what failed and, for `Failed to download: ${statusCode}`,
\* the status code in its message.
Error(kind, code) == [kind |-> kind, code |-> code]
NoError == Error("none", 0)

IdleCall ==
  [pc |-> "idle", owner |-> "none", probe |-> "none", consent |-> "none",
   result |-> <<>>, err |-> NoError, status |-> 0, unwind |-> 0,
   requests |-> <<>>, locations |-> <<>>, body |-> "none", effects |-> {}]

\* fs.unlink on the cache path: removes the file unless the call fails.
UnlinkFile(f, ok) == IF f.exists /\ ok THEN NoFile ELSE f

\* ------------------------------------------------------- ensureAnemosBinary
\* Entry of ensureAnemosBinary: the probe `<binaryName> --help` is spawned.
BeginCall(c, who) ==
  [IdleCall EXCEPT !.pc = "probing", !.owner = who, !.effects = {"probe"}]

\* catch of ensureAnemosBinary: show the error message and rethrow.
ThrowFromAcquisition(fr, e) ==
  [fr EXCEPT !.pc = "thrown", !.err = e, !.effects = @ \cup {"errorMessage"}]

\* Variant of Declined: only an explicit 'No' declines.
DeclinedOnlyNo(choice) == choice = "No"

\* The consent test: downloadChoice !== 'Yes'.
Declined(choice) == choice # "Yes"

\* Variant of NeedsChmod: the permission step is skipped everywhere.
NeedsChmodNever(p) == FALSE

\* The chmod test: platform !== 'win32'.
NeedsChmod(p) == p # "win32"

\* Variant of AfterProbe: the cache probe runs before the probe's result is
\* looked at.
AfterProbeCacheFirst(fr, outcome, cached, p) ==
  IF cached
  THEN [fr EXCEPT !.pc = "returned",
                  !.probe = IF outcome = "exit0" THEN "ok" ELSE "failed",
                  !.result = BinaryPath(p),
                  !.effects = @ \cup {"existsSync"}]
  ELSE IF outcome = "exit0"
  THEN [fr EXCEPT !.pc = "returned", !.probe = "ok", !.result = BareName(p),
                  !.effects = @ \cup {"existsSync"}]
  ELSE [fr EXCEPT !.pc = "prompting", !.probe = "failed",
                  !.effects = @ \cup {"existsSync", "prompt"}]

\* Variant of AfterProbe: the cache probe is missing.
AfterProbeNoCache(fr, outcome, cached, p) ==
  IF outcome = "exit0"
  THEN [fr EXCEPT !.pc = "returned", !.probe = "ok", !.result = BareName(p)]
  ELSE [fr EXCEPT !.pc = "prompting", !.probe = "failed",
                  !.effects = @ \cup {"prompt"}]

\* ensureAnemosBinary from the end of the probe to its next await: return
\* the bare name, or fall through to the cache probe, which returns the
\* cache path or opens the consent prompt.
AfterProbe(fr, outcome, cached, p) ==
  IF outcome = "exit0"
  THEN [fr EXCEPT !.pc = "returned", !.probe = "ok", !.result = BareName(p)]
  ELSE IF cached
  THEN [fr EXCEPT !.pc = "returned", !.probe = "failed",
                  !.result = BinaryPath(p),
                  !.effects = @ \cup {"existsSync"}]
  ELSE [fr EXCEPT !.pc = "prompting", !.probe = "failed",
                  !.effects = @ \cup {"existsSync", "prompt"}]

\* The probe `<binaryName> --help` completed.
ProbeDone(c) ==
  /\ call[c].pc = "probing"
  /\ \E outcome \in {"exit0", "nonzero", "notfound"} :
       call' = [call EXCEPT ![c] = AfterProbe(@, outcome, file.exists, platform)]
  /\ UNCHANGED <<platform, arch, pathVersion, dirExists, file, record,
                 artifacts, hostPc, registered, warned, sync>>

\* The consent prompt was answered: anything but 'Yes' throws; 'Yes' creates
\* the storage directory if missing and issues the first request.
ConsentAnswered(c) ==
  /\ call[c].pc = "prompting"
  /\ \E choice \in {"Yes", "No", "dismissed"}, mkdirOk \in BOOLEAN :
       IF Declined(choice)
       THEN /\ call' = [call EXCEPT ![c] =
                          ThrowFromAcquisition([@ EXCEPT !.consent = choice],
                                               Error("declined", 0))]
            /\ UNCHANGED dirExists
       ELSE IF ~dirExists /\ ~mkdirOk
       THEN /\ call' = [call EXCEPT ![c] =
                          ThrowFromAcquisition(
                            [@ EXCEPT !.consent = choice,
                                      !.effects = @ \cup {"progressMessage"}],
                            Error("mkdir", 0))]
            /\ UNCHANGED dirExists
       ELSE /\ dirExists' = TRUE
            /\ call' = [call EXCEPT ![c] =
                          [@ EXCEPT !.pc = "requesting",
                                    !.consent = choice,
                                    !.requests = <<getGithubReleaseUrl(platform, arch)>>,
                                    !.effects = @ \cup
                                       ({"progressMessage", "request"} \cup
                                        (IF dirExists THEN {} ELSE {"mkdir"}))]]
  /\ UNCHANGED <<platform, arch, pathVersion, file, record, artifacts,
                 hostPc, registered, warned, sync>>

\* ------------------------------------------------------------ downloadFile
\* Number of downloadFile activations on the stack of frame fr.
Depth(fr) == Len(fr.requests)

\* A failure inside the innermost downloadFile: every activation's catch
\* block has still to run.
StartUnwind(fr, e, levels) ==
  [fr EXCEPT !.pc = "failing", !.err = e, !.unwind = levels]

\* The request failed at transport level (the 'error' event of https.get).
RequestError(c) ==
  /\ call[c].pc = "requesting"
  /\ call' = [call EXCEPT ![c] = StartUnwind(@, Error("network", 0), Depth(@))]
  /\ UNCHANGED <<platform, arch, pathVersion, dirExists, file, record,
                 artifacts, hostPc, registered, warned, sync>>

\* A 301/302 response: downloadFile calls itself with headers.location.
\* A missing header makes the inner https.get throw.
RedirectResponse(c) ==
  /\ call[c].pc = "requesting"
  /\ Depth(call[c]) <= MaxRedirects
  /\ \E st \in (TerminalStatuses \cup RedirectStatuses),
        loc \in {LocationOfHop(Depth(call[c])), Undefined} :
       /\ IsRedirect(st)
       /\ LET fr == [call[c] EXCEPT !.locations = Append(@, loc), !.status = st]
          IN  IF loc = Undefined
              THEN call' = [call EXCEPT ![c] =
                              StartUnwind(fr, Error("location", 0), Depth(fr) + 1)]
              ELSE call' = [call EXCEPT ![c] =
                              [fr EXCEPT !.requests = Append(@, loc)]]
  /\ UNCHANGED <<platform, arch, pathVersion, dirExists, file, record,
                 artifacts, hostPc, registered, warned, sync>>

\* A 301/302 response on a chain longer than the model records, here a
\* cycle between two targets: downloadFile calls itself again.  The frame
\* keeps the current URL in its last slot; the activations beyond the
\* recorded ones are folded into the last, their catch blocks doing the
\* same unlink and rethrow.
RedirectBeyondBound(c) ==
  /\ call[c].pc = "requesting"
  /\ Depth(call[c]) = MaxRedirects + 1
  /\ \E st \in (TerminalStatuses \cup RedirectStatuses) :
       /\ IsRedirect(st)
       /\ LET last == Depth(call[c])
              loc == IF call[c].requests[last] = LocationOfHop(MaxRedirects)
                     THEN LocationOfHop(MaxRedirects + 1)
                     ELSE LocationOfHop(MaxRedirects)
          IN  call' = [call EXCEPT ![c] =
                         [@ EXCEPT !.status = st,
                                   !.locations = [@ EXCEPT ![Len(@)] = loc],
                                   !.requests = [@ EXCEPT ![last] = loc]]]
  /\ UNCHANGED <<platform, arch, pathVersion, dirExists, file, record,
                 artifacts, hostPc, registered, warned, sync>>

\* A response that is not a followed redirect and not 200: throw.
BadStatusResponse(c) ==
  /\ call[c].pc = "requesting"
  /\ \E st \in (TerminalStatuses \cup RedirectStatuses) :
       /\ ~IsRedirect(st)
       /\ ~IsOk(st)
       /\ LET fr == [call[c] EXCEPT !.status = st]
          IN  call' = [call EXCEPT ![c] =
                         StartUnwind(fr, Error("status", st), Depth(fr))]
  /\ UNCHANGED <<platform, arch, pathVersion, dirExists, file, record,
                 artifacts, hostPc, registered, warned, sync>>

\* A 200 response: writeResponseToFile opens the write stream on destPath
\* (creating or truncating the file) and pipes the response into it.  When
\* the open fails the stream's 'error' handler unlinks and rejects.
OkResponse(c) ==
  /\ call[c].pc = "requesting"
  /\ \E st \in (TerminalStatuses \cup RedirectStatuses), b \in Bodies,
        openOk \in BOOLEAN, unlinkOk \in BOOLEAN :
       /\ ~IsRedirect(st)
       /\ IsOk(st)
       /\ LET fr == [call[c] EXCEPT !.status = st, !.body = b]
          IN  IF openOk
              THEN /\ file' = [exists |-> TRUE, complete |-> FALSE, body |-> b,
                               exec |-> file.exists /\ file.exec]
                   /\ call' = [call EXCEPT ![c] =
                                 [fr EXCEPT !.pc = "streaming",
                                            !.effects = @ \cup {"write"}]]
              ELSE /\ file' = UnlinkFile(file, unlinkOk)
                   /\ call' = [call EXCEPT ![c] =
                                 StartUnwind(
                                   [fr EXCEPT !.effects = @ \cup {"unlink"}],
                                   Error("write", 0), Depth(fr))]
  /\ UNCHANGED <<platform, arch, pathVersion, dirExists, record, artifacts,
                 hostPc, registered, warned, sync>>

\* The response stream emitted 'error' while piping: the promise rejects;
\* the write stream is left as it is.
ResponseStreamError(c) ==
  /\ call[c].pc = "streaming"
  /\ call' = [call EXCEPT ![c] = StartUnwind(@, Error("stream", 0), Depth(@))]
  /\ UNCHANGED <<platform, arch, pathVersion, dirExists, file, record,
                 artifacts, hostPc, registered, warned, sync>>

\* The write stream emitted 'error' while piping: unlink destPath (failure
\* ignored), then reject.
WriteStreamError(c) ==
  /\ call[c].pc = "streaming"
  /\ \E unlinkOk \in BOOLEAN :
       file' = UnlinkFile(file, unlinkOk)
  /\ call' = [call EXCEPT ![c] =
                StartUnwind([@ EXCEPT !.effects = @ \cup {"unlink"}],
                            Error("write", 0), Depth(@))]
  /\ UNCHANGED <<platform, arch, pathVersion, dirExists, record, artifacts,
                 hostPc, registered, warned, sync>>

\* One catch block of downloadFile: unlink destPath if it exists (failure
\* ignored) and rethrow.  The outermost rethrow reaches the catch of
\* ensureAnemosBinary.
CleanupAndRethrow(c) ==
  /\ call[c].pc = "failing"
  /\ call[c].unwind > 0
  /\ \E unlinkOk \in BOOLEAN :
       /\ file' = UnlinkFile(file, unlinkOk)
       /\ LET fr == [call[c] EXCEPT
                       !.unwind = @ - 1,
                       !.effects = @ \cup
                          (IF file.exists
                           THEN {"unlink"} \cup
                                (IF unlinkOk THEN {} ELSE {"unlinkFailed"})
                           ELSE {})]
          IN  call' = [call EXCEPT ![c] =
                         IF fr.unwind = 0
                         THEN ThrowFromAcquisition(fr, fr.err)
                         ELSE fr]
  /\ UNCHANGED <<platform, arch, pathVersion, dirExists, record, artifacts,
                 hostPc, registered, warned, sync>>

\* The write stream finished and closed: downloadFile returns through all
\* its activations; ensureAnemosBinary marks the file executable except on
\* win32 and returns the cache path.  The path holds the whole body only
\* when no other call's write stream, which truncated it on opening, is
\* still writing, and holds nothing when a cleanup unlinked it meanwhile.
StreamFinished(c) ==
  /\ call[c].pc = "streaming"
  /\ \E chmodOk \in BOOLEAN :
       LET done == IF file.exists
                   THEN [file EXCEPT !.complete =
                           ~\E d \in Calls \ {c} : call[d].pc = "streaming"]
                   ELSE file
           fr == [call[c] EXCEPT !.effects = @ \cup {"finish"}]
       IN  IF NeedsChmod(platform)
           THEN IF chmodOk /\ done.exists
                THEN /\ file' = [done EXCEPT !.exec = TRUE]
                     /\ call' = [call EXCEPT ![c] =
                                   [fr EXCEPT !.pc = "returned",
                                              !.result = BinaryPath(platform),
                                              !.effects = @ \cup {"chmod", "successMessage"}]]
                ELSE /\ file' = done
                     /\ call' = [call EXCEPT ![c] =
                                   ThrowFromAcquisition(
                                     [fr EXCEPT !.effects = @ \cup {"chmod"}],
                                     Error("chmod", 0))]
           ELSE /\ file' = done
                /\ call' = [call EXCEPT ![c] =
                              [fr EXCEPT !.pc = "returned",
                                         !.result = BinaryPath(platform),
                                         !.effects = @ \cup {"successMessage"}]]
  /\ UNCHANGED <<platform, arch, pathVersion, dirExists, record, artifacts,
                 hostPc, registered, warned, sync>>

ResolverStep(c) ==
  \/ ProbeDone(c)
  \/ ConsentAnswered(c)
  \/ RequestError(c)
  \/ RedirectResponse(c)
  \/ BadStatusResponse(c)
  \/ OkResponse(c)
  \/ ResponseStreamError(c)
  \/ WriteStreamError(c)
  \/ CleanupAndRethrow(c)
  \/ StreamFinished(c)

\* ------------------------------------------------------ tool invocations
\* Whitespace characters String.prototype.trim removes.
Whitespace == {" ", "\n", "\r", "\t"}

\* What `--version` prints for a binary of version v: the token and a newline.
VersionOutput(v) == <<v, "\n">>

RECURSIVE TrimStart(_)
TrimStart(s) ==
  IF s # <<>> /\ Head(s) \in Whitespace THEN TrimStart(Tail(s)) ELSE s

RECURSIVE TrimEnd(_)
TrimEnd(s) ==
  IF s # <<>> /\ s[Len(s)] \in Whitespace
  THEN TrimEnd(SubSeq(s, 1, Len(s) - 1))
  ELSE s

\* versionOutput.trim(), the text read back as one string.
Trim(s) ==
  LET t == TrimEnd(TrimStart(s))
  IN  IF Len(t) = 1 THEN t[1] ELSE "garbled"

\* The version of the binary a ToolLocation runs.
VersionAt(loc) == IF Len(loc) = 1 THEN pathVersion ELSE file.body

\* Whether execSync can run the binary at a ToolLocation at all: a bare name
\* is looked up on the search path (may or may not be there); a cache path
\* needs a completely written file, executable except on win32.
CanRun(loc) ==
  \/ Len(loc) = 1
  \/ /\ file.exists
     /\ file.complete
     /\ file.body \in Versions
     /\ (platform = "win32" \/ file.exec)

NoRecord == [state |-> "none", version |-> "none"]
CorruptRecord == [state |-> "corrupt", version |-> "none"]
NoArtifacts == [version |-> "none", complete |-> FALSE]

IdleSync ==
  [state |-> "idle", currentVersion |-> "none", recordSeen |-> "unread",
   needsUpdate |-> FALSE, regenCalled |-> FALSE, declRun |-> "no",
   versionLoc |-> <<>>, generateLoc |-> <<>>, generatedVersion |-> "none",
   wrote |-> FALSE, notified |-> FALSE, logged |-> {}, propagated |-> FALSE]

\* ------------------------------------------------- ensureTypesAreUpToDate
\* Variant of NeedsUpdate: the "0.0.0" sentinel is not looked at.
NeedsUpdateNoSentinel(storedVersion, currentVersion) ==
  storedVersion # currentVersion

\* The staleness test of ensureTypesAreUpToDate on a parsed record.
NeedsUpdate(storedVersion, currentVersion) ==
  storedVersion # currentVersion \/ currentVersion = "0.0.0"

\* Variant of ComputeNeedsUpdate: needsUpdate starts out false.
ComputeNeedsUpdateDefaultFalse(rec, readOk, currentVersion) ==
  IF rec.state = "none" THEN FALSE
  ELSE IF rec.state = "corrupt" \/ ~readOk THEN TRUE
  ELSE NeedsUpdate(rec.version, currentVersion)

\* needsUpdate over the cases of the version file: absent, unreadable or
\* unparsable, parsed.
ComputeNeedsUpdate(rec, readOk, currentVersion) ==
  IF rec.state = "none" THEN TRUE
  ELSE IF rec.state = "corrupt" \/ ~readOk THEN TRUE
  ELSE NeedsUpdate(rec.version, currentVersion)

\* Variant of SyncCatches: generateAnemosTypes is called outside the try.
SyncCatchesAllButGenerate(what) == what # "generateError"

\* Whether a failure raised inside ensureTypesAreUpToDate is inside its
\* try block (all of its body is).
SyncCatches(what) == TRUE

\* A failure ends the pass: the outer catch logs and swallows it, anything
\* it does not cover propagates to activate.
SwallowInSync(s, what) ==
  [s EXCEPT !.state = "done", !.logged = @ \cup {what},
            !.propagated = ~SyncCatches(what)]

\* ------------------------------------------------------------------- host
AllIdle == \A c \in Calls : call[c].pc = "idle"
Finished(c) == call[c].pc \in {"returned", "thrown"}

\* Variant of ActivateCatches: the awaits of activate are not in a try.
ActivateCatchesNothing(what) == FALSE

\* Whether activate's try/catch covers a failure of its two awaited calls.
ActivateCatches(what) == TRUE

\* Where activate goes after an awaited call threw: on to the
\* registrations with the warning shown, or out of activate.
AfterActivateThrow(what) ==
  IF ActivateCatches(what) THEN "registering" ELSE "aborted"

\* activate: the startup resolution begins.
Activate ==
  /\ hostPc = "start"
  /\ AllIdle
  /\ hostPc' = "resolving"
  /\ call' = [call EXCEPT ![1] = BeginCall(1, "startup")]
  /\ UNCHANGED <<platform, arch, pathVersion, dirExists, file, record,
                 artifacts, registered, warned, sync>>

\* activate, after `await ensureAnemosBinary`: a failure skips the
\* synchronization pass, shows the warning and registers; a success enters
\* ensureTypesAreUpToDate, whose first await is the resolver call made by
\* getAnemosToolVersion.
StartupResolved ==
  /\ hostPc = "resolving"
  /\ Finished(1)
  /\ call[1].owner = "startup"
  /\ IF call[1].pc = "thrown"
     THEN /\ warned' = ActivateCatches("resolve")
          /\ hostPc' = AfterActivateThrow("resolve")
          /\ call' = [call EXCEPT ![1] = IdleCall]
          /\ UNCHANGED sync
     ELSE /\ hostPc' = "version"
          /\ sync' = [IdleSync EXCEPT !.state = "version"]
          /\ call' = [call EXCEPT ![1] = BeginCall(1, "version")]
          /\ UNCHANGED warned
  /\ UNCHANGED <<platform, arch, pathVersion, dirExists, file, record,
                 artifacts, registered>>

\* getAnemosToolVersion after its resolver call: run `--version` and trim,
\* or 'unknown' on any failure.
QueriedVersion(fr, execOk) ==
  IF fr.pc = "returned" /\ execOk /\ CanRun(fr.result)
  THEN Trim(VersionOutput(VersionAt(fr.result)))
  ELSE "unknown"

\* ensureTypesAreUpToDate from the return of getAnemosToolVersion to its
\* next await: read the version file, decide, and either finish or enter
\* generateAnemosTypes, whose first await is a resolver call.
VersionResolved ==
  /\ hostPc = "version"
  /\ Finished(1)
  /\ call[1].owner = "version"
  /\ \E execOk \in BOOLEAN, readOk \in BOOLEAN :
       LET cur == QueriedVersion(call[1], execOk)
           need == ComputeNeedsUpdate(record, readOk, cur)
           s == [sync EXCEPT !.currentVersion = cur,
                             !.versionLoc = call[1].result,
                             !.recordSeen = IF record.state = "ok" /\ ~readOk
                                            THEN "corrupt" ELSE record.state,
                             !.needsUpdate = need,
                             !.logged = @ \cup
                                ((IF cur = "unknown" THEN {"versionError"} ELSE {})
                                 \cup
                                 (IF record.state = "corrupt" \/
                                     (record.state = "ok" /\ ~readOk)
                                  THEN {"readError"} ELSE {}))]
       IN  IF need
           THEN /\ sync' = [s EXCEPT !.state = "generate", !.regenCalled = TRUE]
                /\ hostPc' = "generate"
                /\ call' = [call EXCEPT ![1] = BeginCall(1, "generate")]
           ELSE /\ sync' = [s EXCEPT !.state = "done"]
                /\ hostPc' = "registering"
                /\ call' = [call EXCEPT ![1] = IdleCall]
  /\ UNCHANGED <<platform, arch, pathVersion, dirExists, file, record,
                 artifacts, warned, registered>>

\* Variant of GenerationFailed: generateAnemosTypes logs its error and
\* does not rethrow it.
GenerationFailedSwallowed(outcome) == FALSE

\* Whether generateAnemosTypes throws: its resolver call or the
\* `declarations` command failed, and its catch rethrows.
GenerationFailed(outcome) == outcome # "ok"

\* generateAnemosTypes after its resolver call: run `declarations`.  A
\* failure is rethrown to ensureTypesAreUpToDate, whose catch ends the pass;
\* otherwise the pass goes on to write the version file.
GenerateResolved ==
  /\ hostPc = "generate"
  /\ Finished(1)
  /\ call[1].owner = "generate"
  /\ \E execOk \in BOOLEAN, partial \in BOOLEAN :
       LET loc == call[1].result
           outcome == IF call[1].pc = "thrown" THEN "no"
                      ELSE IF execOk /\ CanRun(loc) THEN "ok" ELSE "failed"
           s == [sync EXCEPT !.generateLoc = loc, !.declRun = outcome,
                             !.generatedVersion =
                                IF outcome = "ok" THEN VersionAt(loc) ELSE @]
       IN  /\ artifacts' =
                IF outcome = "ok"
                THEN [version |-> VersionAt(loc), complete |-> TRUE]
                ELSE IF outcome = "failed" /\ partial /\ CanRun(loc)
                THEN [version |-> VersionAt(loc), complete |-> FALSE]
                ELSE artifacts
           /\ IF GenerationFailed(outcome)
              THEN /\ sync' = SwallowInSync(s, "generateError")
                   /\ hostPc' = IF sync'.propagated
                                THEN AfterActivateThrow("sync")
                                ELSE "registering"
                   /\ warned' = (warned \/ sync'.propagated)
              ELSE /\ sync' = [s EXCEPT !.state = "recording"]
                   /\ hostPc' = "recording"
                   /\ UNCHANGED warned
  /\ call' = [call EXCEPT ![1] = IdleCall]
  /\ UNCHANGED <<platform, arch, pathVersion, dirExists, file, record,
                 registered>>

\* ensureTypesAreUpToDate after generateAnemosTypes returned: write the
\* version file with the queried version, then ask for the restart of the TS
\* server.  A failed write may leave the file as it was or torn.
WriteRecord ==
  /\ hostPc = "recording"
  /\ \E writeOk \in BOOLEAN, torn \in BOOLEAN :
       IF writeOk
       THEN /\ record' = [state |-> "ok", version |-> sync.currentVersion]
            /\ sync' = [sync EXCEPT !.state = "done", !.wrote = TRUE,
                                    !.notified = TRUE]
       ELSE /\ record' = IF torn THEN CorruptRecord ELSE record
            /\ sync' = SwallowInSync(sync, "writeError")
  /\ hostPc' = IF sync'.propagated THEN AfterActivateThrow("sync")
               ELSE "registering"
  /\ warned' = (warned \/ sync'.propagated)
  /\ UNCHANGED <<platform, arch, pathVersion, dirExists, file, artifacts,
                 registered, call>>

\* The rest of activate: register anemos.build and the terminal-close
\* listener.  The locals of the finished pass are gone.
RegisterCommands ==
  /\ hostPc = "registering"
  /\ hostPc' = "active"
  /\ registered' = TRUE
  /\ sync' = IdleSync
  /\ UNCHANGED <<platform, arch, pathVersion, dirExists, file, record,
                 artifacts, warned, call>>

\* The anemos.build command: its resolver call begins, in the first free
\* frame.  `overlap` tells whether the host lets a command start while
\* another resolution is still running.
BuildCommand(c, overlap) ==
  /\ hostPc = "active"
  /\ registered
  /\ call[c].pc = "idle"
  /\ \A d \in Calls : d < c => call[d].pc # "idle"
  /\ overlap \/ AllIdle
  /\ call' = [call EXCEPT ![c] = BeginCall(c, "build")]
  /\ UNCHANGED <<platform, arch, pathVersion, dirExists, file, record,
                 artifacts, hostPc, registered, warned, sync>>

\* The anemos.build command after its resolver call: error message or
\* the build sent to the terminal.
BuildResolved(c) ==
  /\ Finished(c)
  /\ call[c].owner = "build"
  /\ call' = [call EXCEPT ![c] = IdleCall]
  /\ UNCHANGED <<platform, arch, pathVersion, dirExists, file, record,
                 artifacts, hostPc, registered, warned, sync>>

\* The host application is closed and started again; persisted files stay.
Restart ==
  /\ hostPc = "active"
  /\ AllIdle
  /\ hostPc' = "start"
  /\ registered' = FALSE
  /\ warned' = FALSE
  /\ UNCHANGED <<platform, arch, pathVersion, dirExists, file, record,
                 artifacts, sync, call>>

\* Between sessions the tool on the search path is upgraded or downgraded.
ToolVersionChange ==
  /\ hostPc = "start"
  /\ \E v \in Versions \ {pathVersion} : pathVersion' = v
  /\ UNCHANGED <<platform, arch, dirExists, file, record, artifacts, hostPc,
                 registered, warned, sync, call>>

\* ----------------------------------------------------------- specification
Init ==
  /\ platform \in Platforms
  /\ arch \in Archs
  /\ pathVersion \in Versions
  /\ dirExists = FALSE
  /\ file = NoFile
  /\ record = NoRecord
  /\ artifacts = NoArtifacts
  /\ hostPc = "start"
  /\ registered = FALSE
  /\ warned = FALSE
  /\ sync = IdleSync
  /\ call = [c \in Calls |-> IdleCall]

HostStep ==
  \/ Activate
  \/ StartupResolved
  \/ VersionResolved
  \/ GenerateResolved
  \/ WriteRecord
  \/ RegisterCommands
  \/ Restart
  \/ ToolVersionChange

\* Resolutions never overlap: the host starts a command only when no other
\* resolution is running.
Next ==
  \/ HostStep
  \/ \E c \in Calls : ResolverStep(c)
  \/ \E c \in Calls : BuildCommand(c, FALSE)
  \/ \E c \in Calls : BuildResolved(c)

Spec == Init /\ [][Next]_vars

\* The URL computation alone, over every platform and architecture the
\* host can report: a resolution that reaches the first request.
InitUrl ==
  /\ platform \in AllPlatforms
  /\ arch \in AllArchs
  /\ pathVersion = "1.2.0"
  /\ dirExists = FALSE
  /\ file = NoFile
  /\ record = NoRecord
  /\ artifacts = NoArtifacts
  /\ hostPc = "start"
  /\ registered = FALSE
  /\ warned = FALSE
  /\ sync = IdleSync
  /\ call = [c \in Calls |-> IdleCall]

NextUrl ==
  \/ Activate
  \/ \E c \in Calls : ProbeDone(c)
  \/ \E c \in Calls : ConsentAnswered(c)

SpecUrl == InitUrl /\ [][NextUrl]_vars

\* One activation, from any state earlier sessions can have left the
\* version file and the artifacts in, with every awaited outcome eventually
\* delivered: the host's event loop runs each continuation whose promise
\* has settled, the user answers the prompt and the server answers.
RecordsLeft ==
  {NoRecord, CorruptRecord} \cup {[state |-> "ok", version |-> v] : v \in Versions}

ArtifactsLeftWith(r) ==
  IF r = NoRecord THEN NoArtifacts
  ELSE IF r = CorruptRecord THEN [version |-> "1.2.0", complete |-> TRUE]
  ELSE [version |-> r.version, complete |-> TRUE]

InitStartup ==
  /\ platform \in Platforms
  /\ arch \in Archs
  /\ pathVersion \in Versions
  /\ dirExists = FALSE
  /\ file = NoFile
  /\ record \in RecordsLeft
  /\ artifacts = ArtifactsLeftWith(record)
  /\ hostPc = "start"
  /\ registered = FALSE
  /\ warned = FALSE
  /\ sync = IdleSync
  /\ call = [c \in Calls |-> IdleCall]

NextStartup ==
  \/ Activate
  \/ StartupResolved
  \/ VersionResolved
  \/ GenerateResolved
  \/ WriteRecord
  \/ RegisterCommands
  \/ \E c \in Calls : ResolverStep(c)

SpecStartup == InitStartup /\ [][NextStartup]_vars /\ WF_vars(NextStartup)

\* The activated extension with the build command invoked again while an
\* earlier invocation's resolution is still suspended: VS Code runs a
\* command handler on every invocation and the handler has no guard.
InitActive ==
  /\ platform \in Platforms
  /\ arch \in Archs
  /\ pathVersion = "1.2.0"
  /\ dirExists = FALSE
  /\ file = NoFile
  /\ record = [state |-> "ok", version |-> "1.2.0"]
  /\ artifacts = [version |-> "1.2.0", complete |-> TRUE]
  /\ hostPc = "active"
  /\ registered = TRUE
  /\ warned = FALSE
  /\ sync = IdleSync
  /\ call = [c \in Calls |-> IdleCall]

NextOverlap ==
  \/ \E c \in Calls : BuildCommand(c, TRUE)
  \/ \E c \in Calls : ResolverStep(c)
  \/ \E c \in Calls : BuildResolved(c)

SpecOverlap == InitActive /\ [][NextOverlap]_vars

\* Downloads against a server whose redirect chain need not end.  Every
\* request the code has issued is eventually answered: weak fairness on
\* the steps of the resolver calls, which are the arrivals of awaited
\* outcomes.
AwaitedOutcome ==
  \E c \in Calls : ResolverStep(c) \/ RedirectBeyondBound(c)

NextRedirect ==
  \/ \E c \in Calls : BuildCommand(c, FALSE)
  \/ \E c \in Calls : ResolverStep(c)
  \/ \E c \in Calls : RedirectBeyondBound(c)
  \/ \E c \in Calls : BuildResolved(c)

SpecRedirect == InitActive /\ [][NextRedirect]_vars /\ WF_vars(AwaitedOutcome)

\* ------------------------------------------------------------- properties
\* What the resolver is expected to return, written out from the source
\* text rather than through the operators above.
ExpectedName == IF platform = "win32" THEN "anemos.exe" ELSE "anemos"
ExpectedCachePath == <<"globalStorage", ExpectedName>>

\* Effects on the cache directory and the network.
CacheOrNetworkEffects ==
  {"existsSync", "prompt", "mkdir", "request", "write", "unlink",
   "unlinkFailed", "chmod", "finish"}

\* C1: a resolver call whose search-path probe succeeded has returned the
\* bare binary name and has done nothing else: no cache-file existence
\* check, no consent prompt, no directory creation, no request, no file
\* write or delete; the step that ends the probe leaves the storage
\* directory and the cache file as they were.
C1_ProbeSuccessReturnsBareName ==
  /\ [](\A c \in Calls :
          call[c].probe = "ok" =>
            /\ call[c].pc = "returned"
            /\ call[c].result = <<ExpectedName>>
            /\ call[c].effects \cap CacheOrNetworkEffects = {})
  /\ [][\A c \in Calls :
          (call[c].pc = "probing" /\ call'[c].probe = "ok") =>
            (file' = file /\ dirExists' = dirExists)]_vars

\* C1 witness: a call returned the bare name while a cached file existed.
C1_Witness ==
  \E c \in Calls :
    /\ call[c].pc = "returned"
    /\ call[c].probe = "ok"
    /\ call[c].result = <<ExpectedName>>
    /\ file.exists

\* C2: when the probe fails and a file exists at the cache path, the step
\* that ends the probe returns the absolute cache path, with no consent
\* prompt, no request and no change to the cache.
C2_CacheHitReturnsPath ==
  [][\A c \in Calls :
       (call[c].pc = "probing" /\ file.exists /\ call'[c].probe = "failed") =>
         /\ call'[c].pc = "returned"
         /\ call'[c].result = ExpectedCachePath
         /\ call'[c].effects \cap
              {"prompt", "mkdir", "request", "write", "unlink", "chmod"} = {}
         /\ file' = file
         /\ dirExists' = dirExists]_vars

\* C2 witness: a call whose probe failed returned the cache path.
C2_Witness ==
  \E c \in Calls :
    /\ call[c].pc = "returned"
    /\ call[c].probe = "failed"
    /\ call[c].result = ExpectedCachePath
    /\ "prompt" \notin call[c].effects
    /\ file.exists

\* C3: when the consent prompt is answered with anything but 'Yes', the
\* call fails with the declined error, and neither the storage directory
\* nor the cache file changes and no request is issued.
C3_DeclineChangesNothing ==
  [][\A c \in Calls :
       (call[c].pc = "prompting" /\ call'[c].consent \in {"No", "dismissed"}) =>
         /\ call'[c].pc = "thrown"
         /\ call'[c].err.kind = "declined"
         /\ call'[c].effects \cap {"mkdir", "request", "write"} = {}
         /\ file' = file
         /\ dirExists' = dirExists]_vars

\* C3 witness: a dismissed prompt ended the call with the declined error
\* while neither the directory nor the file exists.
C3_Witness ==
  \E c \in Calls :
    /\ call[c].pc = "thrown"
    /\ call[c].consent = "dismissed"
    /\ call[c].err.kind = "declined"
    /\ ~dirExists
    /\ ~file.exists

\* A call that went through acquisition to the end of the download.
Acquired(c) == call[c].pc = "returned" /\ "finish" \in call[c].effects

\* The cached binary as a completed acquisition leaves it.
CacheReady ==
  file.exists /\ file.complete /\ (platform # "win32" => file.exec)

\* C4: a call that acquired the binary (probe failed, cache empty, consent
\* given, download succeeded) returns the cache path with the file present,
\* marked executable exactly when the platform is not win32 (no chmod on
\* win32); from then on the file is never touched, and every later call
\* whose probe fails returns the same path with no prompt and no request.
C4_EndToEndAcquisition ==
  /\ [](\A c \in Calls :
          Acquired(c) =>
            /\ call[c].result = ExpectedCachePath
            /\ call[c].consent = "Yes"
            /\ CacheReady
            /\ (platform # "win32" <=> file.exec)
            /\ (platform # "win32" <=> "chmod" \in call[c].effects))
  /\ [][CacheReady => file' = file]_vars
  /\ [][\A c \in Calls :
          (CacheReady /\ call[c].pc = "probing" /\ call'[c].probe = "failed") =>
            /\ call'[c].pc = "returned"
            /\ call'[c].result = ExpectedCachePath
            /\ call'[c].effects \cap {"prompt", "request"} = {}]_vars

\* C4 witness: on a non-win32 host a later call returned the executable
\* cached file without prompt or request.
C4_Witness ==
  \E c \in Calls :
    /\ call[c].pc = "returned"
    /\ call[c].probe = "failed"
    /\ call[c].effects = {"probe", "existsSync"}
    /\ call[c].result = ExpectedCachePath
    /\ platform # "win32"
    /\ file.exists /\ file.complete /\ file.exec

\* Error kinds with which downloadFile itself ends.
DownloadErrorKinds == {"network", "status", "location", "stream", "write"}

\* C5: whenever a download has ended with an error (request error, non-200
\* terminal status, response-stream error or write-stream error, at any
\* redirect depth) and the error has reached the caller, no file exists at
\* the cache path.
C5_FailedDownloadLeavesNoFile ==
  \A c \in Calls :
    (call[c].pc = "thrown" /\ call[c].err.kind \in DownloadErrorKinds) =>
      ~file.exists

\* C6: every request after the first goes to the Location of the response
\* before it, a 301/302 (or the final 200) is never the reason a download
\* fails, only a 200 response is streamed, and a download that finished has
\* left at the cache path exactly the body of its terminal 200 response.
C6_RedirectsFollowedToTerminalBody ==
  \A c \in Calls :
    LET fr == call[c] IN
    /\ fr.requests # <<>> =>
         fr.requests[1] = getGithubReleaseUrl(platform, arch)
    /\ \A i \in 1..Len(fr.locations) :
         fr.locations[i] # <<>> =>
           /\ i + 1 <= Len(fr.requests)
           /\ fr.requests[i + 1] = fr.locations[i]
    /\ Len(fr.requests) <= Len(fr.locations) + 1
    /\ fr.err.kind = "status" => fr.err.code \notin {301, 302, 200}
    /\ fr.pc = "streaming" => fr.status = 200
    /\ "finish" \in fr.effects =>
         /\ fr.status = 200
         /\ fr.body \in Bodies
         /\ file.exists
         /\ file.complete
         /\ file.body = fr.body

\* C6 witness: a download that followed two redirects finished and the
\* call returned with the terminal body in the file.
C6_Witness ==
  \E c \in Calls :
    /\ call[c].pc = "returned"
    /\ "finish" \in call[c].effects
    /\ Len(call[c].locations) >= 2
    /\ Len(call[c].requests) = Len(call[c].locations) + 1
    /\ file.body = call[c].body

\* C7: a call whose last response had a status outside 2xx that is not a
\* followed 301/302 has failed with the download error carrying that
\* status code, and has written nothing to the cache path.
C7_BadStatusFails ==
  \A c \in Calls :
    LET fr == call[c] IN
    (fr.status # 0 /\ fr.status \notin 200..299 /\ fr.status \notin {301, 302}) =>
      /\ fr.pc \in {"failing", "thrown"}
      /\ fr.err = [kind |-> "status", code |-> fr.status]
      /\ "write" \notin fr.effects
      /\ ~file.exists

\* C7 witness: after a redirect a 404 ended the call with that code.
C7_Witness ==
  \E c \in Calls :
    /\ call[c].pc = "thrown"
    /\ call[c].err = [kind |-> "status", code |-> 404]
    /\ Len(call[c].locations) >= 1

PlatformIds == {"windows", "darwin", "linux"}
ArchIds == {"amd64", "arm64"}

\* C8: for every platform and architecture the host reports, the URL of
\* the first request is .../releases/latest/download/anemos-{p}-{a} with
\* exactly one platform id and exactly one architecture id, an
\* unrecognized architecture gives amd64, and the platform id is windows
\* exactly when the binary file name is anemos.exe.
C8_ReleaseUrlShape ==
  \A c \in Calls :
    call[c].requests # <<>> =>
      LET url == call[c].requests[1] IN
      /\ Len(url) = 6
      /\ url[1] = "https://github.com/ohayocorp/anemos/releases/"
      /\ url[2] = "latest"
      /\ url[3] = "/download/anemos-"
      /\ url[5] = "-"
      /\ url[4] \in PlatformIds
      /\ url[6] \in ArchIds
      /\ Cardinality({i \in 1..Len(url) : url[i] \in PlatformIds}) = 1
      /\ Cardinality({i \in 1..Len(url) : url[i] \in ArchIds}) = 1
      /\ (arch \notin {"x64", "arm64"} => url[6] = "amd64")
      /\ (url[4] = "windows" <=> BinaryName(platform) = "anemos.exe")

\* C8 witness: a request was issued on a host with an unrecognized
\* architecture and a platform outside win32/darwin/linux.
C8_Witness ==
  \E c \in Calls :
    /\ call[c].requests # <<>>
    /\ platform = "freebsd"
    /\ arch = "riscv64"
    /\ call[c].requests[1][4] = "linux"
    /\ call[c].requests[1][6] = "amd64"

\* C9: the synchronization pass never lets an error through to its caller,
\* whatever failed in it (resolution, version query, reading the record,
\* generation, writing the record): a finished pass has propagated nothing
\* and activate has not shown its warning.
C9_SyncNeverPropagates ==
  /\ ~sync.propagated
  /\ sync.state = "done" => ~warned

\* C9 witness: a pass in which the version query and the generation both
\* failed has finished.
C9_Witness ==
  /\ sync.state = "done"
  /\ {"versionError", "generateError"} \subseteq sync.logged
  /\ hostPc = "registering"

\* C9 second witness: a pass whose record write failed has finished.
C9_WitnessWrite ==
  /\ sync.state = "done"
  /\ "writeError" \in sync.logged

\* C10: a pass that found no version file calls generateAnemosTypes, and
\* the record it writes after a successful generation carries the version
\* returned by the version query of the same pass.
C10_MissingRecordRegenerates ==
  sync.recordSeen = "none" =>
    /\ sync.needsUpdate
    /\ sync.regenCalled
    /\ sync.state \in {"generate", "recording", "done"}
    /\ sync.wrote =>
         /\ sync.declRun = "ok"
         /\ record.state = "ok"
         /\ record.version = sync.currentVersion

\* C10 witness: a pass that found no version file has generated and has
\* written the queried version.
C10_Witness ==
  /\ sync.state = "done"
  /\ sync.recordSeen = "none"
  /\ sync.wrote
  /\ sync.currentVersion \in Versions
  /\ record.version = sync.currentVersion

\* C11: when the pass reads a parsable version file, it calls
\* generateAnemosTypes exactly when the stored version differs from the
\* queried one or the queried one is "0.0.0"; a pass that does not call it
\* ends at once with the record and the artifacts untouched, nothing
\* written and no restart of the TS server.
C11_StalenessDecision ==
  /\ [][(hostPc = "version" /\ hostPc' # "version" /\ sync'.recordSeen = "ok") =>
          /\ sync'.regenCalled <=>
               (record.version # sync'.currentVersion \/
                sync'.currentVersion = "0.0.0")
          /\ ~sync'.regenCalled =>
               /\ sync'.state = "done"
               /\ hostPc' = "registering"
               /\ record' = record
               /\ artifacts' = artifacts]_vars
  /\ []((sync.state = "done" /\ ~sync.regenCalled) =>
          (~sync.wrote /\ ~sync.notified /\ sync.declRun = "no"))

\* C11 witness: stored "1.2.0", queried "1.2.0": the pass ended without
\* regeneration.
C11_Witness ==
  /\ sync.state = "done"
  /\ sync.recordSeen = "ok"
  /\ sync.currentVersion = "1.2.0"
  /\ record = [state |-> "ok", version |-> "1.2.0"]
  /\ ~sync.regenCalled

\* C11 second witness: stored "0.0.0", queried "0.0.0": regeneration was
\* called all the same.
C11_WitnessSentinel ==
  /\ sync.state = "generate"
  /\ sync.recordSeen = "ok"
  /\ sync.currentVersion = "0.0.0"
  /\ record = [state |-> "ok", version |-> "0.0.0"]
  /\ sync.regenCalled

\* C12: a pass whose version query failed (resolution or `--version`) does
\* not call generateAnemosTypes, and the version file never holds the
\* version "unknown".
C12_UnknownSkipsRegeneration ==
  /\ "versionError" \in sync.logged => ~sync.regenCalled
  /\ record.version # "unknown"

\* C13: whenever a pass has queried the active tool version and the
\* version file holds exactly that version, the artifacts directory holds
\* the complete declarations produced by that version.
C13_RecordImpliesConsistentArtifacts ==
  (/\ sync.state = "done"
   /\ sync.currentVersion \in Versions
   /\ record.state = "ok"
   /\ record.version = sync.currentVersion) =>
    artifacts = [version |-> sync.currentVersion, complete |-> TRUE]

\* C14: at no moment do the artifacts directory and the version file
\* disagree: artifacts are present only together with a record naming the
\* version that produced them, and a record only together with them.
C14_AtomicPublication ==
  /\ artifacts.version # "none" =>
       (record.state = "ok" /\ record.version = artifacts.version)
  /\ record.state = "ok" => artifacts.version = record.version

\* C15: the version file changes only in the write that follows a
\* successful `declarations` run of the same pass, the TS server restart is
\* asked for only together with a successful write of the queried version,
\* a pass whose generation failed has written nothing and notified nobody,
\* and a pass that found the record fresh ends with no generation, no write
\* and no notification.
C15_PassOrdering ==
  /\ [](sync.wrote => sync.declRun = "ok")
  /\ [](sync.notified => sync.wrote)
  /\ [][record' # record =>
          (hostPc = "recording" /\ sync.declRun = "ok")]_vars
  /\ [][(sync'.notified /\ ~sync.notified) =>
          record' = [state |-> "ok", version |-> sync.currentVersion]]_vars
  /\ []((sync.state = "done" /\ sync.declRun # "ok") =>
          (~sync.wrote /\ ~sync.notified))
  /\ []((sync.state = "done" /\ ~sync.needsUpdate) =>
          (~sync.regenCalled /\ sync.declRun = "no" /\ ~sync.wrote /\
           ~sync.notified))

\* C15 witness: a pass whose `declarations` run failed ended with the old
\* record still in place and no notification.
C15_Witness ==
  /\ sync.state = "done"
  /\ sync.declRun = "failed"
  /\ record.state = "ok"
  /\ record.version # sync.currentVersion
  /\ ~sync.notified

\* C15 second witness: a pass generated, wrote and notified.
C15_WitnessWritten ==
  /\ sync.state = "done"
  /\ sync.declRun = "ok"
  /\ sync.wrote
  /\ sync.notified

\* C16: activate is never left by an exception, and whenever the startup
\* resolution has thrown, or the synchronization pass has ended (failed or
\* not), activate goes on to register the anemos.build command and the
\* terminal-close listener.
C16_StartupNeverAborted ==
  /\ [](hostPc # "aborted")
  /\ (hostPc = "resolving" /\ call[1].pc = "thrown") ~>
       (hostPc = "active" /\ registered)
  /\ (sync.state = "done") ~> (hostPc = "active" /\ registered)

\* C16 witness: the startup resolution failed, the warning was shown and
\* the registrations were made.
C16_Witness ==
  /\ hostPc = "active"
  /\ registered
  /\ warned

\* What the user sees: prompts, notifications and message boxes.
UserVisibleEffects ==
  {"prompt", "progressMessage", "successMessage", "errorMessage"}

\* C17: a resolver call made by the synchronization pass (for the version
\* query or for the generation) never shows a prompt, a progress
\* notification or a message to the user.
C17_SyncIsSilent ==
  \A c \in Calls :
    call[c].owner \in {"version", "generate"} =>
      call[c].effects \cap UserVisibleEffects = {}

\* C19: when a pass has written the record with a version it queried, the
\* location that ran `declarations` is the location whose `--version`
\* output was queried, and the recorded version is the version of the
\* binary that generated the artifacts.
C19_SameLocationForQueryAndGeneration ==
  (sync.wrote /\ sync.currentVersion \in Versions) =>
    /\ sync.generateLoc = sync.versionLoc
    /\ record.version = sync.generatedVersion

\* C18: every cache path a resolver call has returned, and which its
\* caller has not yet used, names a file that exists and is completely
\* written, however the calls overlap.
C18_OverlappingResolutionsSafe ==
  \A c \in Calls :
    (call[c].pc = "returned" /\ call[c].result = ExpectedCachePath) =>
      (file.exists /\ file.complete)

\* C20: every download that has issued a request eventually ends, with
\* the resolver call returned or thrown, whatever the server answers.
C20_DownloadTerminates ==
  \A c \in Calls :
    (call[c].pc = "requesting") ~> (call[c].pc \in {"returned", "thrown"})

====
